---------------------------- MODULE Spec2Model ----------------------------
(***************************************************************************)
(* Negotiation engine of sentinel-economic: the negotiations table as it   *)
(* is written by AINegotiationEngine (negotiation_engine_ai.py),           *)
(* NegotiationEngine (negotiation_engine.py), the seller override and the  *)
(* purchase confirmation endpoints (dashboard_api.py), and the decision    *)
(* policy of AINegotiationAgent (ai_negotiation_agent.py).                 *)
(*                                                                         *)
(* Prices are exact decimals counted in units of 0.00001: a price with 4   *)
(* decimals (what round(x, 4) returns) is a multiple of 10 units, 0.0268   *)
(* is 2680.  Confidences are counted in hundredths (0.95 is 95).  Times    *)
(* are minutes.  Binary floating-point error is not modelled.              *)
(***************************************************************************)
EXTENDS Integers, Sequences, FiniteSets, TLC

\* SQL NULL / Python None in a price column or argument.
NULL == -1

\* A field the reasoning service left out of its JSON object (dict.get default applies).
MISSING == -2

\* A field of the reasoning service's JSON object that float() cannot convert.
BAD == -3

MAX_ROUNDS == 3

\* timedelta(minutes=30)
TTL == 30

(***************************************************************************)
(* Bounds of the model.                                                    *)
(***************************************************************************)
\* Negotiation ids that may be created (each start_negotiation draws a fresh uuid).
MaxNegs == 1

\* respond_to_counter calls that may be suspended between their SELECT and their UPDATE.
MaxInFlight == 1

\* Clock steps; each advances the clock by TickMinutes.
MaxTicks == 1

\* Minutes per clock step: one step past a refresh is past expires_at.
TickMinutes == 31

\* record_outcome invocations counted per negotiation.
MaxOutcomes == 1

\* Seller overrides accepted per negotiation.
MaxOverrides == 1

\* Buyers whose profiles are followed.
MaxBuyers == 1

\* record_outcome calls that may be open at once (between their first UPDATE
\* and their commit) in the profile store's specification.
MaxRecording == 2

\* Outcomes recorded per buyer in the profile store's specification.
MaxRecorded == 3

\* Negotiation ids beyond those of the engine's specification, for the
\* specification of several negotiations side by side.
MaxOthers == 1

\* Clock steps taken while a respond_to_counter call is suspended, and their
\* length in minutes (the clock's smallest step).
MaxPauses == 1

PauseMinutes == 1

\* get_buyer_profile calls that may be between their SELECT and their INSERT
\* at once.
MaxLooking == 2

\* The largest quantity of a price evaluation.
MaxQuantity == 101

NegIds == 1..MaxNegs
LookIds == 1..MaxLooking
AllIds == 1..(MaxNegs + MaxOthers)
CallIds == 1..MaxInFlight
Buyers == 1..MaxBuyers
RecordIds == 1..MaxRecording

\* our_price of the negotiations (4 decimals): 0.0022, whose floor
\* 0.6 x 0.0022 = 0.00132 is not a 4-decimal value.
OurPrices == {220}

\* Buyer offers: below the floor (0.0005), in the counter band (0.0015), in
\* the accept band (0.0020).
Offers == {50, 150, 200}

\* Prices a seller may send with an override: none, or one below the floor.
OverridePrices == {NULL, 50}

(***************************************************************************)
(* Arithmetic.                                                             *)
(***************************************************************************)
Max(a, b) == IF a >= b THEN a ELSE b

Min(a, b) == IF a <= b THEN a ELSE b

\* n/d rounded to the nearest integer, ties to even (Python's round), d > 0.
RoundDiv(n, d) ==
    LET q == n \div d
        r == n % d
    IN  IF 2 * r < d THEN q
        ELSE IF 2 * r > d THEN q + 1
        ELSE IF q % 2 = 0 THEN q ELSE q + 1

\* round(n/d, 4) of a price of n/d units: the nearest multiple of 10 units.
Round4(n, d) == 10 * RoundDiv(n, 10 * d)

\* our_price * 0.6 (our_price has 4 decimals, so the product is a whole number of units).
MinAcceptable(our_price) == (our_price * 6) \div 10

\* our_price * 1.2
MaxCounter(our_price) == (our_price * 12) \div 10

(***************************************************************************)
(* The decision policy (ai_negotiation_agent.py).                          *)
(***************************************************************************)
\* AIDecision: the fields the engines and the claims read.
Decision(action, counter_price, confidence, strategy) ==
    [action |-> action, counter_price |-> counter_price,
     confidence |-> confidence, strategy |-> strategy]

\* An exception leaving the callee instead of a decision.
Raised == Decision("raised", NULL, 0, "exception")

\* NegotiationContext: the fields the policy reads.
Context(our_price, offered_price) ==
    [our_price |-> our_price, min_acceptable |-> MinAcceptable(our_price),
     offered_price |-> offered_price]

\* A threshold of the rule table moved: 0.85 read as 0.8.
Mutant_fallback_decision(ctx) ==
    IF ctx.our_price = 0 THEN Raised
    ELSE IF ctx.offered_price * 100 >= 100 * ctx.our_price
        THEN Decision("accept", NULL, 95, "direct_accept")
    ELSE IF ctx.offered_price * 100 >= 80 * ctx.our_price
        THEN Decision("accept", NULL, 80, "close_enough")
    ELSE IF ctx.offered_price * 100 >= 60 * ctx.our_price
        THEN Decision("counter", Round4(ctx.offered_price + ctx.our_price, 2),
                      70, "meet_in_middle")
    ELSE Decision("reject", NULL, 90, "firm_stance")

\* AINegotiationAgent._fallback_decision: offer_ratio = offered_price / our_price
\* (ZeroDivisionError when our_price is 0) against 1.0, 0.85, 0.6.
_fallback_decision(ctx) ==
    IF ctx.our_price = 0 THEN Raised
    ELSE IF ctx.offered_price * 100 >= 100 * ctx.our_price
        THEN Decision("accept", NULL, 95, "direct_accept")
    ELSE IF ctx.offered_price * 100 >= 85 * ctx.our_price
        THEN Decision("accept", NULL, 80, "close_enough")
    ELSE IF ctx.offered_price * 100 >= 60 * ctx.our_price
        THEN Decision("counter", Round4(ctx.offered_price + ctx.our_price, 2),
                      70, "meet_in_middle")
    ELSE Decision("reject", NULL, 90, "firm_stance")

\* What the reasoning service does with one request.  kind: how _call_llm ends
\* ("no_key", "transport_error", "timeout", "http_error": it raises; "text": it
\* returns the reply's content).  json: what json.loads makes of the content
\* ("unparseable": it raises; "not_object": a JSON value without .get; "object").
\* action, counter_price, confidence, strategy: the object's fields.
Reply(kind, json, action, counter_price, confidence, strategy) ==
    [kind |-> kind, json |-> json, action |-> action,
     counter_price |-> counter_price, confidence |-> confidence,
     strategy |-> strategy]

CallFailures == {"no_key", "transport_error", "timeout", "http_error"}

ValidActions == {"accept", "counter", "reject"}

\* _call_llm raises: OPENROUTER_API_KEY unset, requests.post raising (transport
\* error, timeout), status_code != 200.
_call_llm_raises(llm) == llm.kind \in CallFailures

\* _parse_llm_response takes its except branch: json.loads fails, data has no
\* .get, action is not a string, or a float() conversion fails (counter_price is
\* converted only when the action is counter).
_parse_raises(llm) ==
    \/ llm.json # "object"
    \/ llm.action = "not_a_string"
    \/ llm.confidence = BAD
    \/ (llm.action = "counter" /\ llm.counter_price = BAD)

\* AINegotiationAgent._parse_llm_response.
_parse_llm_response(llm, ctx) ==
    IF _parse_raises(llm) THEN _fallback_decision(ctx)
    ELSE
        LET action == IF llm.action \in ValidActions THEN llm.action ELSE "reject"
            proposed == IF llm.counter_price = MISSING THEN ctx.our_price
                        ELSE llm.counter_price
            clamped == Max(ctx.min_acceptable, Min(proposed, MaxCounter(ctx.our_price)))
        IN  Decision(action,
                     IF action = "counter" THEN Round4(clamped, 1) ELSE NULL,
                     IF llm.confidence = MISSING THEN 70 ELSE llm.confidence,
                     llm.strategy)

\* AINegotiationAgent.make_decision.  _build_decision_prompt divides by
\* our_price outside the try block; everything _call_llm and
\* _parse_llm_response raise is caught.
make_decision(ctx, llm) ==
    IF ctx.our_price = 0 THEN Raised
    ELSE IF _call_llm_raises(llm) THEN _fallback_decision(ctx)
    ELSE _parse_llm_response(llm, ctx)


(***************************************************************************)
(* Inputs.                                                                 *)
(***************************************************************************)
\* Replies of the reasoning service: every way _call_llm fails, a reply that
\* is no JSON, a JSON value that is no object, and objects with a valid, an
\* invalid ("hold"), a missing or a non-string action, a counter_price missing,
\* unconvertible, below the floor, inside the band or above the ceiling, and a
\* confidence missing, unconvertible or given.
PolicyReplies ==
    {Reply(k, "object", "reject", MISSING, MISSING, "adaptive") : k \in CallFailures}
    \cup {Reply("text", j, "reject", MISSING, MISSING, "adaptive") :
            j \in {"unparseable", "not_object"}}
    \cup {Reply("text", "object", a, p, c, "loyalty_discount") :
            a \in ValidActions \cup {"hold", "missing", "not_a_string"},
            p \in {MISSING, BAD, 100, 240, 2400, 9000},
            c \in {MISSING, BAD, 85}}

\* Replies of the reasoning service to the engine: the service is down, or it
\* answers accept, or counter at a price below the floor or in the band;
\* one reply carries an empty strategy ("strategy": "" or null).
Replies ==
    {Reply("timeout", "object", "reject", MISSING, MISSING, "adaptive"),
     Reply("text", "object", "accept", MISSING, 85, "loyalty_discount"),
     Reply("text", "object", "counter", 100, 85, ""),
     Reply("text", "object", "counter", 240, 85, "loyalty_discount")}

\* new_offer of respond_to_counter: absent, or an offer.
NewOffers == {NULL} \cup Offers

\* action of respond_to_counter; "haggle" stands for any other string.
RespondActions == {"accept", "counter", "reject", "haggle"}

\* action of the override request; "other" stands for any other value.
OverrideActions == {"accept", "counter", "reject", "other"}

\* AINegotiationEngine (the one api_server.py serves) and NegotiationEngine.
Engines == {"ai", "rule"}

(***************************************************************************)
(* State.                                                                  *)
(***************************************************************************)
VARIABLES
    serving,    \* the engine this deployment serves: "ai" or "rule"
    negs,       \* the negotiations table: id -> row (NoRow before the INSERT)
    now,        \* the clock, in minutes
    calls,      \* respond_to_counter calls between their SELECT and their UPDATE
    last,       \* the respond_to_counter call that ended in the last step, if any
    history,    \* negotiation_history: id -> its events in insertion order
    ai_decisions, \* ai_decisions: id -> the decisions logged for its highest round
    outcomes,   \* record_outcome: id -> calls made and calls committed
    overrides,  \* negotiation_overrides: id -> its records in insertion order
    got,        \* what the get_negotiation call of the last step returned, if any
    response,   \* the NegotiationResponse the call of the last step returned, if any
    profiles,   \* buyer_profiles: buyer id -> profile (NoProfile before the INSERT)
    recorded,   \* per buyer, the outcomes record_outcome has committed
    recording,  \* record_outcome calls between their first UPDATE and their commit
    stats,      \* per buyer, the aggregates of its transactions and negotiations
    returned,   \* what the get_buyer_profile call of the last step returned, if any
    judged,     \* outcome evaluation: the outcome columns record_outcome wrote on the logged decisions
    looking,    \* get_buyer_profile calls between their SELECT and their INSERT
    priced,     \* price evaluation: unit price, quantity and what _get_our_price returned
    context,    \* policy evaluation: the NegotiationContext handed to the policy
    reply,      \* policy evaluation: the reasoning service's reply to it
    decision,   \* policy evaluation: what make_decision returned
    fallback    \* policy evaluation: what _fallback_decision returned

vars ==
    <<serving, negs, now, calls, last, history, ai_decisions, outcomes,
      overrides, got, response, profiles, recorded, recording, stats, returned, priced, judged, looking,
      context, reply, decision, fallback>>

engineVars == <<serving, negs, now, calls, last>>

storeVars == <<history, ai_decisions, outcomes, overrides>>

policyVars == <<context, reply, decision, fallback>>

profileVars == <<profiles, recorded, recording, stats, returned>>

quoteVars == <<priced>>

learnVars == <<judged, looking>>

\* A row of negotiations: the columns that decide a negotiation's course.  The
\* columns written once by the INSERT and not read by these operations (id,
\* service, endpoint, buyer, quantity, initial_offer, the AI columns, created_at,
\* metadata) and the write-only stamp updated_at are left out.
Row(status, round_number, current_offer, our_price, counter_price, final_price, expires_at) ==
    [status |-> status, round_number |-> round_number,
     current_offer |-> current_offer, our_price |-> our_price,
     counter_price |-> counter_price, final_price |-> final_price,
     expires_at |-> expires_at]

\* No row with this id (cursor.fetchone() returns None).
NoRow == Row("absent", 0, NULL, NULL, NULL, NULL, NULL)

\* A free slot for an in-flight call.
Idle == [pc |-> "idle", engine |-> "ai", neg |-> 1, t |-> 0, snap |-> NoRow]

\* No respond_to_counter call ended in the last step.
NoCall == [op |-> "none", neg |-> 1, action |-> "accept", error |-> "none"]

\* op "respond": a call that ran from its SELECT to its end within the step;
\* op "commit": the UPDATE and end of a call that had been suspended.
CallEnded(op, n, action, error) ==
    [op |-> op, neg |-> n, action |-> action, error |-> error]

NoDecision == Decision("none", NULL, 0, "none")

NoContext == Context(0, 0)

NoReply == Reply("none", "object", "reject", MISSING, MISSING, "adaptive")

\* Python's "a or b" on prices: None and 0.0 are both false.
Or(a, b) == IF a = NULL \/ a = 0 THEN b ELSE a

Terminal == {"accepted", "rejected", "expired"}


(***************************************************************************)
(* The stores beside the negotiations table.                               *)
(***************************************************************************)
\* A row of negotiation_history: the round it carries and who acted.
Event(round_number, actor) == [round_number |-> round_number, actor |-> actor]

\* The two INSERTs into negotiation_history of one call: buyer, then seller.
RoundEvents(round_number) ==
    <<Event(round_number, "buyer"), Event(round_number, "seller")>>

\* A row of ai_decisions: from decision_json, action and strategy.
DecisionRow(d) == [action |-> d.action, strategy |-> d.strategy]

\* The rows of ai_decisions of one negotiation that carry its highest
\* round_number, without duplicates: record_outcome reads no other row.
NoDecisions == [round_number |-> 0, rows |-> {}]

\* A _log_decision that skips the decisions of the rule-based policy's counter
\* band.
Mutant_log_decision(log, round_number, d) ==
    IF d.strategy = "meet_in_middle" THEN log
    ELSE IF round_number > log.round_number
        THEN [round_number |-> round_number, rows |-> {DecisionRow(d)}]
    ELSE IF round_number = log.round_number
        THEN [log EXCEPT !.rows = @ \cup {DecisionRow(d)}]
    ELSE log

\* AINegotiationAgent._log_decision: INSERT INTO ai_decisions, commit.
_log_decision(log, round_number, d) ==
    IF round_number > log.round_number
        THEN [round_number |-> round_number, rows |-> {DecisionRow(d)}]
    ELSE IF round_number = log.round_number
        THEN [log EXCEPT !.rows = @ \cup {DecisionRow(d)}]
    ELSE log

\* record_outcome's SELECT ... ORDER BY round_number DESC LIMIT 1: the strategy
\* of a row of the highest round ("none": the negotiation has no row).
latest_strategy(log) ==
    IF log.rows = {} THEN {"none"} ELSE {x.strategy : x \in log.rows}

\* record_outcome's INSERT INTO strategy_performance ... ON CONFLICT(strategy_name)
\* runs when the SELECT returned a non-empty strategy, and SQLite rejects it:
\* the table _ensure_tables creates has no UNIQUE constraint on strategy_name.
strategy_write_raises(s) == s \notin {"none", ""}

\* record_outcome calls made for a negotiation, and those that committed.
NoOutcomes == [calls |-> 0, done |-> 0]

\* AINegotiationAgent.record_outcome, s being the strategy its SELECT returned:
\* nothing is committed when the strategy write raises.
record_outcome(o, s) ==
    [calls |-> o.calls + 1,
     done |-> IF strategy_write_raises(s) THEN o.done ELSE o.done + 1]

\* record_outcome's UPDATE ai_decisions SET outcome_correct = CASE WHEN
\* json_extract(decision_json, '$.action') = ? THEN 1 ELSE 0 END, the
\* parameter being the outcome: the two strings are compared as they are.
outcome_correct(action, outcome) == IF action = outcome THEN 1 ELSE 0

\* The outcome columns of a logged decision.
Judged(action, actual_outcome, correct) ==
    [action |-> action, actual_outcome |-> actual_outcome, outcome_correct |-> correct]

\* The outcome columns of the logged decisions of a negotiation after a
\* record_outcome call; before it, or when it raised before its commit, they
\* are NULL.
JudgedRows(done, outcome, rows) == [done |-> done, outcome |-> outcome, rows |-> rows]

NoJudged == JudgedRows(FALSE, "none", {})

\* What get_negotiation returns: the row and its history.
Got(row, events) == [row |-> row, history |-> events]

\* No get_negotiation call ended in the last step.
NoGet == Got(NoRow, <<>>)

\* A response that always carries the payment URL.
Mutant_NegotiationResponse(n, status) ==
    [status |-> status, payment_url |-> n]

\* NegotiationResponse: the status reported and the payment URL, which is
\* /api/payment/pay/<negotiation_id> (kept as the id) or None.
NegotiationResponse(n, status) ==
    [status |-> status,
     payment_url |-> IF status = "accepted" THEN n ELSE NULL]

\* No NegotiationResponse returned: another request, or the call raised.
NoResponse == [status |-> "none", payment_url |-> NULL]

(***************************************************************************)
(* Buyer profiles (ai_negotiation_agent.py).                               *)
(***************************************************************************)
RECURSIVE GCD(_, _)
GCD(a, b) == IF b = 0 THEN a ELSE GCD(b, a % b)

\* A rate as an exact fraction in lowest terms (SQLite computes it in REAL).
Rate(num, den) == [num |-> num \div GCD(num, den), den |-> den \div GCD(num, den)]

\* A rate that is NULL (an AVG over no row).
NullRate == [num |-> 0, den |-> 0]

\* A row of buyer_profiles: the columns record_outcome updates and the defaults
\* get_buyer_profile fills in (avg_offer_ratio in hundredths).  total_spent,
\* counter_acceptance_rate, negotiation_rounds_avg and the time stamps are left out.
Profile(total_transactions, acceptance_rate, avg_offer_ratio, tags) ==
    [stored |-> TRUE, total_transactions |-> total_transactions,
     acceptance_rate |-> acceptance_rate, avg_offer_ratio |-> avg_offer_ratio,
     tags |-> tags]

\* No row for this buyer.
NoProfile ==
    [stored |-> FALSE, total_transactions |-> 0, acceptance_rate |-> Rate(0, 1),
     avg_offer_ratio |-> 0, tags |-> {}]

\* What get_buyer_profile's two aggregate SELECTs return for a buyer: count and
\* total of its transactions (total in whole currency units), and over its
\* negotiations the accepted share, the average round_number (tenths) and the
\* average initial_offer / our_price (hundredths); NULL (NullRate) where there
\* is no row.
History(count, total, accept_rate, avg_rounds, avg_offer_ratio) ==
    [count |-> count, total |-> total, accept_rate |-> accept_rate,
     avg_rounds |-> avg_rounds, avg_offer_ratio |-> avg_offer_ratio]

\* A buyer with no transaction and no negotiation.
NoHistory == History(0, NULL, NullRate, NULL, NULL)

\* Python's "a or b" on a rate: None and 0.0 are both false.
OrRate(a, b) == IF a.num = 0 THEN b ELSE a

\* get_buyer_profile, the behavior tags computed from the aggregates.
behavior_tags(h) ==
    LET rate == OrRate(h.accept_rate, Rate(1, 2))
    IN  (IF Or(h.total, 0) > 10 THEN {"high_value"} ELSE {})
        \cup (IF Or(h.avg_offer_ratio, 100) < 70 THEN {"price_sensitive"} ELSE {})
        \cup (IF Or(h.avg_rounds, 10) < 15 THEN {"quick_decider"} ELSE {})
        \cup (IF 10 * rate.num > 7 * rate.den THEN {"easy_closer"} ELSE {})

\* AINegotiationAgent.get_buyer_profile: the stored profile, or the one it
\* creates, stores and returns from the buyer's aggregates.
get_buyer_profile(profile, h) ==
    IF profile.stored THEN profile
    ELSE Profile(Or(h.count, 0), OrRate(h.accept_rate, Rate(1, 2)),
                 Or(h.avg_offer_ratio, 100), behavior_tags(h))

\* outcome of record_outcome as a number: 1 for "accepted", 0 otherwise.
Success(outcome) == IF outcome = "accepted" THEN 1 ELSE 0

\* AINegotiationAgent._update_buyer_profile: one UPDATE buyer_profiles ... WHERE
\* buyer_id = ?, which changes no row when the buyer has none.
_update_buyer_profile(profile, outcome) ==
    LET n == profile.total_transactions
        rate == profile.acceptance_rate
    IN  IF ~profile.stored THEN profile
        ELSE IF outcome = "accepted"
            THEN [profile EXCEPT
                    !.total_transactions = n + 1,
                    !.acceptance_rate = Rate(rate.num * n + rate.den, rate.den * (n + 1))]
        ELSE [profile EXCEPT
                !.acceptance_rate = Rate(rate.num * n, rate.den * (n + 1))]

\* The outcomes committed for a buyer: how many, and how many of them accepted.
NoneRecorded == [count |-> 0, accepted |-> 0]

\* A get_buyer_profile call: idle, or holding what its SELECT found.
NoLookup == [pc |-> "idle", buyer |-> 1, found |-> NoProfile]

NoLooking == [c \in LookIds |-> NoLookup]

\* A free slot for an open record_outcome call.
NoRecording == [pc |-> "idle", buyer |-> 1, outcome |-> "rejected", profile |-> NoProfile]

\* buyer_id of negotiation n: the buyers take turns.
NegBuyer(n) == ((n - 1) % MaxBuyers) + 1

\* record_outcome's UPDATE ai_decisions SET actual_outcome = ?.
note_outcome(r, outcome) ==
    [count |-> r.count + 1, accepted |-> r.accepted + Success(outcome)]

\* What a whole record_outcome call leaves of the buyer's profile and of its
\* recorded outcomes, s being the strategy its SELECT returned: its one commit
\* comes after the strategy write, so nothing is kept when that write raises.
outcome_profile(profile, outcome, s) ==
    IF strategy_write_raises(s) THEN profile
    ELSE _update_buyer_profile(profile, outcome)

outcome_recorded(r, outcome, s) ==
    IF strategy_write_raises(s) THEN r ELSE note_outcome(r, outcome)

(***************************************************************************)
(* start_negotiation.                                                      *)
(***************************************************************************)
\* The 0.7 tier applied from 50 units on.
Mutant_get_our_price(unit_price, quantity) ==
    LET discount == IF quantity >= 50 THEN 7
                    ELSE IF quantity >= 20 THEN 9
                    ELSE 10
    IN  Round4(unit_price * discount * quantity, 10)

\* _get_our_price of both engines: the unit price times 0.7, 0.8 or 0.9 from
\* 100, 50 or 20 units on, times the quantity, rounded to 4 decimals.  The
\* discount is kept in tenths.
_get_our_price(unit_price, quantity) ==
    LET discount == IF quantity >= 100 THEN 7
                    ELSE IF quantity >= 50 THEN 8
                    ELSE IF quantity >= 20 THEN 9
                    ELSE 10
    IN  Round4(unit_price * discount * quantity, 10)

\* One evaluation of _get_our_price: its inputs and, once it returned, its
\* result.
Quote(unit_price, quantity, our_price, done) ==
    [unit_price |-> unit_price, quantity |-> quantity, our_price |-> our_price, done |-> done]

\* No evaluation.
NoQuote == Quote(0, 0, 0, FALSE)

\* AINegotiationEngine.start_negotiation: the row it inserts for a decision.
ai_start_row(our_price, offered_price, d, t) ==
    Row(IF d.action = "accept" THEN "accepted"
        ELSE IF d.action = "counter" THEN "countered" ELSE "rejected",
        1, offered_price, our_price, d.counter_price,
        IF d.action = "accept" THEN offered_price ELSE NULL,
        t + TTL)

\* NegotiationEngine.start_negotiation: the row it inserts; trusted is
\* buyer_trust >= 0.7.
rule_start_row(our_price, offered_price, trusted, t) ==
    IF 100 * offered_price >= 85 * our_price
        THEN Row("accepted", 1, offered_price, our_price, NULL, offered_price,
                 t + TTL)
    ELSE IF 10 * offered_price >= 6 * our_price
        THEN Row("countered", 1, offered_price, our_price,
                 Round4((offered_price + our_price) * 105, 200), NULL, t + TTL)
    ELSE IF trusted
        THEN Row("countered", 1, offered_price, our_price,
                 Round4(our_price * 66, 100), NULL, t + TTL)
    ELSE Row("rejected", 1, offered_price, our_price, our_price, NULL, t + TTL)

\* The next unused negotiation id.
Fresh(n) == negs[n] = NoRow /\ \A m \in AllIds : m < n => negs[m] # NoRow

\* AINegotiationEngine.start_negotiation: get_buyer_profile stores the buyer's
\* profile if it has none, make_decision logs its decision, then the row and the
\* two history events of round 1 are inserted and committed.  record_outcome is
\* not called.
AIStart(n, our_price, offered_price, r) ==
    LET d == make_decision(Context(our_price, offered_price), r)
        b == NegBuyer(n)
    IN  /\ Fresh(n)
        /\ d.action # "raised"
        /\ profiles' = [profiles EXCEPT ![b] = get_buyer_profile(@, stats[b])]
        /\ negs' = [negs EXCEPT ![n] =
                      ai_start_row(our_price, offered_price, d, now)]
        /\ ai_decisions' = [ai_decisions EXCEPT ![n] = _log_decision(@, 1, d)]
        /\ history' = [history EXCEPT ![n] = @ \o RoundEvents(1)]
        /\ last' = NoCall
        /\ got' = NoGet
        /\ response' = NegotiationResponse(n, negs'[n].status)
        /\ UNCHANGED <<serving, now, calls, outcomes, overrides, policyVars, quoteVars, learnVars>>
        /\ UNCHANGED <<recorded, recording, stats, returned>>

\* NegotiationEngine.start_negotiation: the row and the two history events.
RuleStart(n, our_price, offered_price, trusted) ==
    /\ Fresh(n)
    /\ negs' = [negs EXCEPT ![n] =
                  rule_start_row(our_price, offered_price, trusted, now)]
    /\ history' = [history EXCEPT ![n] = @ \o RoundEvents(1)]
    /\ last' = NoCall
    /\ got' = NoGet
    /\ response' = NegotiationResponse(n, negs'[n].status)
    /\ UNCHANGED <<serving, now, calls, ai_decisions, outcomes, overrides, policyVars, quoteVars, learnVars, profileVars>>

(***************************************************************************)
(* respond_to_counter.                                                     *)
(***************************************************************************)
\* The checks between the SELECT and the action dispatch: the error raised, or
\* "none".  Only NegotiationEngine compares expires_at with the clock.
respond_check(engine, neg, t) ==
    IF neg = NoRow THEN "NotFound"
    ELSE IF neg.status \in Terminal THEN "InvalidState"
    ELSE IF engine = "rule" /\ neg.expires_at < t THEN "Expired"
    ELSE IF neg.round_number >= MAX_ROUNDS THEN "RoundLimitExceeded"
    ELSE "none"

\* What the UPDATE of a respond_to_counter call writes (or the error raised by
\* the action dispatch), computed from the row the call read.
Update(error, status, counter_price, final_price) ==
    [error |-> error, status |-> status, counter_price |-> counter_price,
     final_price |-> final_price]

\* AINegotiationEngine.respond_to_counter, the action dispatch.
ai_respond(neg, action, new_offer, r) ==
    IF action = "accept"
        THEN Update("none", "accepted", NULL, neg.counter_price)
    ELSE IF action = "counter" /\ new_offer # NULL
        THEN LET d == make_decision(Context(neg.our_price, new_offer), r)
             IN  IF d.action = "raised" THEN Update("ZeroDivisionError", "", NULL, NULL)
                 ELSE IF d.action = "accept"
                     THEN Update("none", "accepted", NULL, new_offer)
                 ELSE IF d.action = "counter"
                     THEN Update("none", "countered", d.counter_price, NULL)
                 ELSE Update("none", "rejected", NULL, NULL)
    ELSE IF action = "reject"
        THEN Update("none", "rejected", NULL, NULL)
    ELSE Update("InvalidAction", "", NULL, NULL)

\* NegotiationEngine.respond_to_counter, the action dispatch.  Comparing
\* new_offer with a counter_price of None raises TypeError.
rule_respond(neg, action, new_offer) ==
    IF action = "accept"
        THEN Update("none", "accepted", NULL, neg.counter_price)
    ELSE IF action = "counter" /\ new_offer # NULL
        THEN IF neg.counter_price = NULL
                 THEN Update("TypeError", "", NULL, NULL)
             ELSE IF new_offer >= neg.counter_price
                 THEN Update("none", "accepted", NULL, new_offer)
             ELSE IF 10 * new_offer >= 6 * neg.our_price
                 THEN Update("none", "countered",
                             Round4(new_offer + neg.counter_price, 2), NULL)
             ELSE Update("none", "rejected", NULL, NULL)
    ELSE IF action = "reject"
        THEN Update("none", "rejected", NULL, NULL)
    ELSE Update("InvalidAction", "", NULL, NULL)

respond_update(engine, neg, action, new_offer, r) ==
    IF engine = "ai" THEN ai_respond(neg, action, new_offer, r)
    ELSE rule_respond(neg, action, new_offer)

\* make_decision called for every buyer counter, a new_offer given or not.
Mutant_respond_log(engine, neg, action, new_offer, r, log) ==
    IF engine = "ai" /\ action = "counter"
        THEN LET d == make_decision(Context(neg.our_price, new_offer), r)
             IN  IF d.action = "raised" THEN log
                 ELSE _log_decision(log, neg.round_number + 1, d)
    ELSE log

\* The ai_decisions rows of the negotiation after the action dispatch:
\* AINegotiationEngine calls make_decision, which logs the decision it returns,
\* for a buyer counter with a new_offer.
respond_log(engine, neg, action, new_offer, r, log) ==
    IF engine = "ai" /\ action = "counter" /\ new_offer # NULL
        THEN LET d == make_decision(Context(neg.our_price, new_offer), r)
             IN  IF d.action = "raised" THEN log
                 ELSE _log_decision(log, neg.round_number + 1, d)
    ELSE log

\* The buyer's profile after the action dispatch has looked it up:
\* AINegotiationEngine calls get_buyer_profile for a buyer counter with a
\* new_offer.
respond_profile(engine, action, new_offer, profile, h) ==
    IF engine = "ai" /\ action = "counter" /\ new_offer # NULL
        THEN get_buyer_profile(profile, h)
    ELSE profile

\* The action dispatch calls record_outcome: AINegotiationEngine does on every
\* branch that ends accepted or rejected, NegotiationEngine never does.
respond_records(engine, u) ==
    engine = "ai" /\ u.error = "none" /\ u.status \in {"accepted", "rejected"}

\* The error a respond_to_counter call ends with: s is the strategy
\* record_outcome's SELECT returned.
respond_error(engine, check, u, s) ==
    IF check # "none" THEN check
    ELSE IF u.error # "none" THEN u.error
    ELSE IF respond_records(engine, u) /\ strategy_write_raises(s)
        THEN "OperationalError"
    ELSE "none"

\* The UPDATE also listing our_price, set to the buyer's latest offer.
Mutant_respond_write(row, neg, u, new_offer, t) ==
    [row EXCEPT !.status = u.status,
                !.round_number = neg.round_number + 1,
                !.current_offer = Or(new_offer, neg.current_offer),
                !.our_price = Or(new_offer, neg.current_offer),
                !.counter_price = u.counter_price,
                !.final_price = u.final_price,
                !.expires_at = t + TTL]

\* UPDATE negotiations SET status, round_number, current_offer, counter_price,
\* final_price, expires_at, updated_at WHERE id = ?: the values come from the
\* row the call read (neg) and overwrite the stored row (row).
respond_write(row, neg, u, new_offer, t) ==
    [row EXCEPT !.status = u.status,
                !.round_number = neg.round_number + 1,
                !.current_offer = Or(new_offer, neg.current_offer),
                !.counter_price = u.counter_price,
                !.final_price = u.final_price,
                !.expires_at = t + TTL]

\* An UPDATE that leaves out WHERE id = ?: every stored row is overwritten.
Mutant_update_negotiations(table, n, row) ==
    [m \in DOMAIN table |-> IF table[m] = NoRow THEN NoRow ELSE row]

\* UPDATE negotiations SET ... WHERE id = ?: the table after the row of id n
\* is overwritten.
update_negotiations(table, n, row) == [table EXCEPT ![n] = row]

\* A whole respond_to_counter call with no other request between its SELECT
\* and its commit: checks, action dispatch (make_decision logging its decision,
\* record_outcome), then the UPDATE and the two history events in one commit.
\* NegotiationEngine marks a row it finds past expires_at as expired before
\* raising.
Respond(engine, n, action, new_offer, r) ==
    LET neg == negs[n]
        check == respond_check(engine, neg, now)
        u == respond_update(engine, neg, action, new_offer, r)
        rows == IF check # "none" THEN ai_decisions[n]
                ELSE respond_log(engine, neg, action, new_offer, r, ai_decisions[n])
        records == check = "none" /\ respond_records(engine, u)
        b == NegBuyer(n)
        looked == IF check # "none" THEN profiles[b]
                  ELSE respond_profile(engine, action, new_offer, profiles[b], stats[b])
    IN  \E s \in latest_strategy(rows) :
          LET error == respond_error(engine, check, u, s)
          IN  /\ records => outcomes[n].calls < MaxOutcomes
              /\ profiles' = [profiles EXCEPT ![b] =
                                 IF records THEN outcome_profile(looked, u.status, s)
                                 ELSE looked]
              /\ recorded' = IF records
                                 THEN [recorded EXCEPT ![b] =
                                         outcome_recorded(@, u.status, s)]
                             ELSE recorded
              /\ negs' = IF error = "Expired"
                             THEN [negs EXCEPT ![n].status = "expired"]
                         ELSE IF error # "none" THEN negs
                         ELSE update_negotiations(negs, n,
                                 respond_write(neg, neg, u, new_offer, now))
              /\ ai_decisions' = [ai_decisions EXCEPT ![n] = rows]
              /\ outcomes' = IF records
                                 THEN [outcomes EXCEPT ![n] = record_outcome(@, s)]
                             ELSE outcomes
              /\ history' = IF error = "none"
                                THEN [history EXCEPT ![n] =
                                        @ \o RoundEvents(neg.round_number + 1)]
                            ELSE history
              /\ last' = CallEnded("respond", n, action, error)
              /\ got' = NoGet
              /\ response' = IF error = "none" THEN NegotiationResponse(n, u.status)
                              ELSE NoResponse
              /\ UNCHANGED <<serving, now, calls, overrides, policyVars, quoteVars, learnVars>>
              /\ UNCHANGED <<recording, stats, returned>>

\* A respond_to_counter call passes its checks and is suspended (awaiting the
\* reasoning service, or preempted by another request thread) holding the row
\* it read and the time it took after the checks.  Its arguments action and
\* new_offer are first used when it resumes, and are drawn there.
RespondBegin(c, engine, n) ==
    /\ calls[c].pc = "idle"
    /\ respond_check(engine, negs[n], now) = "none"
    /\ calls' = [calls EXCEPT ![c] =
                   [pc |-> "read", engine |-> engine, neg |-> n, t |-> now,
                    snap |-> negs[n]]]
    /\ last' = NoCall
    /\ got' = NoGet
    /\ response' = NoResponse
    /\ UNCHANGED <<serving, negs, now, storeVars, policyVars, quoteVars, learnVars, profileVars>>

\* The suspended call resumes: action dispatch, UPDATE, history, commit.
RespondCommit(c, action, new_offer, r) ==
    LET call == calls[c]
        n == call.neg
        u == respond_update(call.engine, call.snap, action, new_offer, r)
        rows == respond_log(call.engine, call.snap, action, new_offer, r,
                            ai_decisions[n])
        records == respond_records(call.engine, u)
        b == NegBuyer(n)
        looked == respond_profile(call.engine, action, new_offer, profiles[b], stats[b])
    IN  \E s \in latest_strategy(rows) :
          LET error == respond_error(call.engine, "none", u, s)
          IN  /\ call.pc = "read"
              /\ profiles' = [profiles EXCEPT ![b] =
                                 IF records THEN outcome_profile(looked, u.status, s)
                                 ELSE looked]
              /\ recorded' = IF records
                                 THEN [recorded EXCEPT ![b] =
                                         outcome_recorded(@, u.status, s)]
                             ELSE recorded
              /\ records => outcomes[n].calls < MaxOutcomes
              /\ negs' = IF error # "none" THEN negs
                         ELSE update_negotiations(negs, n,
                                 respond_write(negs[n], call.snap, u,
                                               new_offer, call.t))
              /\ ai_decisions' = [ai_decisions EXCEPT ![n] = rows]
              /\ outcomes' = IF records
                                 THEN [outcomes EXCEPT ![n] = record_outcome(@, s)]
                             ELSE outcomes
              /\ history' = IF error = "none"
                                THEN [history EXCEPT ![n] =
                                        @ \o RoundEvents(call.snap.round_number + 1)]
                            ELSE history
              /\ calls' = [calls EXCEPT ![c] = Idle]
              /\ last' = CallEnded("commit", n, action, error)
              /\ got' = NoGet
              /\ response' = IF error = "none" THEN NegotiationResponse(n, u.status)
                              ELSE NoResponse
              /\ UNCHANGED <<serving, now, overrides, policyVars, quoteVars, learnVars>>
              /\ UNCHANGED <<recording, stats, returned>>

(***************************************************************************)
(* get_negotiation.                                                        *)
(***************************************************************************)
\* A get_negotiation that marks a negotiation it finds past expires_at as
\* expired before returning it.
Mutant_Get(engine, n) ==
    /\ negs' = IF negs[n].status \in {"pending", "countered"} /\ negs[n].expires_at < now
                   THEN [negs EXCEPT ![n].status = "expired"]
               ELSE negs
    /\ got' = Got(negs'[n], history[n])
    /\ response' = NoResponse
    /\ last' = CallEnded("get", n, "get", "none")
    /\ UNCHANGED <<serving, now, calls, storeVars, policyVars, quoteVars, learnVars, profileVars>>

\* get_negotiation of either engine: SELECT the row, SELECT its history, return
\* both (None for an unknown id); nothing is written.
Get(engine, n) ==
    /\ got' = Got(negs[n], history[n])
    /\ response' = NoResponse
    /\ last' = CallEnded("get", n, "get", "none")
    /\ UNCHANGED <<serving, negs, now, calls, storeVars, policyVars, quoteVars, learnVars, profileVars>>

(***************************************************************************)
(* dashboard_api.py.                                                       *)
(***************************************************************************)
\* override_negotiation: the row after the UPDATE of the requested action.
override_row(row, action, price) ==
    IF action = "accept"
        THEN [row EXCEPT !.status = "accepted",
                         !.final_price = Or(price, row.current_offer)]
    ELSE IF action = "counter"
        THEN [row EXCEPT !.status = "countered", !.counter_price = price]
    ELSE IF action = "reject"
        THEN [row EXCEPT !.status = "rejected"]
    ELSE row

\* A row of negotiation_overrides: the status found and the action requested.
OverrideRecord(original_action, override_action) ==
    [original_action |-> original_action, override_action |-> override_action]

\* override_negotiation by the owner of the service; any other caller, an
\* unknown id or a status outside pending/countered ends the request unchanged.
\* The override record is inserted before the action is looked at, and the
\* request answers "overridden" whatever the action.
Override(n, action, price) ==
    /\ negs[n] # NoRow
    /\ negs[n].status \in {"pending", "countered"}
    /\ Len(overrides[n]) < MaxOverrides
    /\ overrides' = [overrides EXCEPT ![n] =
                       Append(@, OverrideRecord(negs[n].status, action))]
    /\ negs' = [negs EXCEPT ![n] = override_row(negs[n], action, price)]
    /\ last' = NoCall
    /\ got' = NoGet
    /\ response' = NoResponse
    /\ UNCHANGED <<serving, now, calls, history, ai_decisions, outcomes, policyVars, quoteVars, learnVars, profileVars>>

\* confirm_purchase with a verified payment and the negotiation_id of the
\* buyer's negotiation: UPDATE negotiations SET status = 'completed'.
ConfirmPurchase(n) ==
    /\ negs[n] # NoRow
    /\ negs' = [negs EXCEPT ![n].status = "completed"]
    /\ last' = NoCall
    /\ got' = NoGet
    /\ response' = NoResponse
    /\ UNCHANGED <<serving, now, calls, storeVars, policyVars, quoteVars, learnVars, profileVars>>

\* Time passes.
Tick ==
    /\ now < MaxTicks * TickMinutes
    /\ now' = now + TickMinutes
    /\ last' = NoCall
    /\ got' = NoGet
    /\ response' = NoResponse
    /\ UNCHANGED <<serving, negs, calls, storeVars, policyVars, quoteVars, learnVars, profileVars>>

(***************************************************************************)
(* The engine's specification.                                             *)
(***************************************************************************)
\* The replies the reasoning service can give during a respond_to_counter
\* call: it is asked only by AINegotiationEngine for a buyer counter with a
\* new_offer.
RespondReplies(engine, action, new_offer) ==
    IF engine = "ai" /\ action = "counter" /\ new_offer # NULL THEN Replies
    ELSE {NoReply}

Init ==
    /\ serving \in Engines
    /\ negs = [n \in AllIds |-> NoRow]
    /\ now = 0
    /\ calls = [c \in CallIds |-> Idle]
    /\ last = NoCall
    /\ history = [n \in AllIds |-> <<>>]
    /\ ai_decisions = [n \in AllIds |-> NoDecisions]
    /\ outcomes = [n \in AllIds |-> NoOutcomes]
    /\ overrides = [n \in AllIds |-> <<>>]
    /\ got = NoGet
    /\ response = NoResponse
    /\ priced = NoQuote
    /\ judged = NoJudged
    /\ looking = NoLooking
    /\ profiles = [b \in Buyers |-> NoProfile]
    /\ recorded = [b \in Buyers |-> NoneRecorded]
    /\ recording = [c \in RecordIds |-> NoRecording]
    /\ stats = [b \in Buyers |-> NoHistory]
    /\ returned = NoProfile
    /\ context = NoContext
    /\ reply = NoReply
    /\ decision = NoDecision
    /\ fallback = NoDecision

Next ==
    \/ \E n \in NegIds, p \in OurPrices, o \in Offers, r \in Replies :
         serving = "ai" /\ AIStart(n, p, o, r)
    \/ \E n \in NegIds, p \in OurPrices, o \in Offers, trusted \in BOOLEAN :
         serving = "rule" /\ RuleStart(n, p, o, trusted)
    \/ \E n \in NegIds, a \in RespondActions, o \in NewOffers :
         \E r \in RespondReplies(serving, a, o) : Respond(serving, n, a, o, r)
    \/ \E n \in NegIds : Get(serving, n)
    \/ \E n \in NegIds, a \in OverrideActions, p \in OverridePrices :
         Override(n, a, p)
    \/ \E n \in NegIds : ConfirmPurchase(n)
    \/ Tick

Spec == Init /\ [][Next]_vars

(***************************************************************************)
(* Concurrent requests: respond_to_counter calls of several request        *)
(* threads on the engines' negotiations, a call being suspended between    *)
(* its SELECT and its UPDATE while others run.                             *)
(***************************************************************************)
NextRace ==
    \/ \E n \in NegIds, p \in OurPrices, o \in Offers, r \in Replies :
         serving = "ai" /\ AIStart(n, p, o, r)
    \/ \E n \in NegIds, p \in OurPrices, o \in Offers, trusted \in BOOLEAN :
         serving = "rule" /\ RuleStart(n, p, o, trusted)
    \/ \E n \in NegIds, a \in RespondActions, o \in NewOffers :
         \E r \in RespondReplies(serving, a, o) : Respond(serving, n, a, o, r)
    \/ \E c \in CallIds, n \in NegIds : RespondBegin(c, serving, n)
    \/ \E c \in CallIds, a \in RespondActions, o \in NewOffers :
         \E r \in RespondReplies(calls[c].engine, a, o) : RespondCommit(c, a, o, r)

SpecRace == Init /\ [][NextRace]_vars

\* The clock advances while a respond_to_counter call is suspended between
\* taking its time (now = datetime.now(UTC)) and its UPDATE.
Pause ==
    /\ \E c \in CallIds : calls[c].pc = "read"
    /\ now < MaxPauses * PauseMinutes
    /\ now' = now + PauseMinutes
    /\ last' = NoCall
    /\ got' = NoGet
    /\ response' = NoResponse
    /\ UNCHANGED <<serving, negs, calls, storeVars, policyVars, quoteVars, learnVars, profileVars>>

\* Replies of the reasoning service while the clock runs: it is down, or it
\* counters in the band with an empty strategy.
ClockReplies(engine, action, new_offer) ==
    RespondReplies(engine, action, new_offer)
        \cap {NoReply,
              Reply("timeout", "object", "reject", MISSING, MISSING, "adaptive"),
              Reply("text", "object", "counter", 240, 85, "")}

NextRaceClock ==
    \/ \E n \in NegIds, p \in OurPrices, o \in Offers :
         \E r \in ClockReplies("ai", "counter", o) :
             serving = "ai" /\ AIStart(n, p, o, r)
    \/ \E n \in NegIds, p \in OurPrices, o \in Offers, trusted \in BOOLEAN :
         serving = "rule" /\ RuleStart(n, p, o, trusted)
    \/ \E n \in NegIds, a \in RespondActions, o \in NewOffers :
         \E r \in ClockReplies(serving, a, o) : Respond(serving, n, a, o, r)
    \/ \E c \in CallIds, n \in NegIds : RespondBegin(c, serving, n)
    \/ \E c \in CallIds, a \in RespondActions, o \in NewOffers :
         \E r \in ClockReplies(calls[c].engine, a, o) : RespondCommit(c, a, o, r)
    \/ Pause

\* Concurrent requests with the clock running.
SpecRaceClock == Init /\ [][NextRaceClock]_vars

(***************************************************************************)
(* The policy's specification: one context and one reply of the reasoning  *)
(* service, to which make_decision and _fallback_decision are applied.     *)
(***************************************************************************)
\* our_price values handed to the policy: 0 (quantity 0), 0.0268 of the
\* spec's scenarios, 0.0269.
PolicyPrices == {0, 220, 2680, 2690}

\* Offers handed to the policy: those of the engine, offers at and around the
\* thresholds 0.6, 0.85 and 1.0 of both our_price values, and one with 5 decimals.
PolicyOffers ==
    Offers \cup {500, 1608, 1614, 1800, 1805, 2200, 2278, 2500, 2680, 2690, 3000}

PolicyContexts == {Context(p, o) : p \in PolicyPrices, o \in PolicyOffers}

\* The negotiation and the round of the context handed to the policy.
PolicyNeg == 1

InitPolicy ==
    /\ serving = "ai"
    /\ negs = [n \in AllIds |-> NoRow]
    /\ now = 0
    /\ calls = [c \in CallIds |-> Idle]
    /\ last = NoCall
    /\ history = [n \in AllIds |-> <<>>]
    /\ ai_decisions = [n \in AllIds |-> NoDecisions]
    /\ outcomes = [n \in AllIds |-> NoOutcomes]
    /\ overrides = [n \in AllIds |-> <<>>]
    /\ got = NoGet
    /\ response = NoResponse
    /\ priced = NoQuote
    /\ judged = NoJudged
    /\ looking = NoLooking
    /\ profiles = [b \in Buyers |-> NoProfile]
    /\ recorded = [b \in Buyers |-> NoneRecorded]
    /\ recording = [c \in RecordIds |-> NoRecording]
    /\ stats = [b \in Buyers |-> NoHistory]
    /\ returned = NoProfile
    /\ context \in PolicyContexts
    /\ reply \in PolicyReplies
    /\ decision = NoDecision
    /\ fallback = NoDecision

\* make_decision is called: the decision it returns is logged before the
\* return; when it raises nothing is logged.
Decide ==
    LET d == make_decision(context, reply)
    IN  /\ decision = NoDecision
        /\ decision' = d
        /\ ai_decisions' =
             IF d.action = "raised" THEN ai_decisions
             ELSE [ai_decisions EXCEPT ![PolicyNeg] = _log_decision(@, 1, d)]
        /\ UNCHANGED <<context, reply, fallback, engineVars, history, outcomes, overrides, got, response, profileVars, quoteVars, learnVars>>

Fallback ==
    /\ fallback = NoDecision
    /\ fallback' = _fallback_decision(context)
    /\ UNCHANGED <<context, reply, decision, engineVars, storeVars, got, response, profileVars, quoteVars, learnVars>>

NextPolicy == Decide \/ Fallback

SpecPolicy == InitPolicy /\ [][NextPolicy]_vars


(***************************************************************************)
(* Outcome evaluation: one decision is made and logged, then the outcome   *)
(* of its negotiation is recorded.                                         *)
(***************************************************************************)
\* Replies of the reasoning service whose decision is logged with an empty
\* strategy (record_outcome then commits) or a named one, and a failed call.
OutcomeReplies ==
    {Reply("text", "object", a, 240, 85, s) :
        a \in ValidActions, s \in {"", "loyalty_discount"}}
    \cup {Reply("timeout", "object", "reject", MISSING, MISSING, "adaptive")}

OutcomeContexts == {Context(p, o) : p \in {220, 2680, 2690}, o \in Offers}

InitOutcome ==
    /\ serving = "ai"
    /\ negs = [n \in AllIds |-> NoRow]
    /\ now = 0
    /\ calls = [c \in CallIds |-> Idle]
    /\ last = NoCall
    /\ history = [n \in AllIds |-> <<>>]
    /\ ai_decisions = [n \in AllIds |-> NoDecisions]
    /\ outcomes = [n \in AllIds |-> NoOutcomes]
    /\ overrides = [n \in AllIds |-> <<>>]
    /\ got = NoGet
    /\ response = NoResponse
    /\ priced = NoQuote
    /\ judged = NoJudged
    /\ looking = NoLooking
    /\ profiles = [b \in Buyers |-> NoProfile]
    /\ recorded = [b \in Buyers |-> NoneRecorded]
    /\ recording = [c \in RecordIds |-> NoRecording]
    /\ stats = [b \in Buyers |-> NoHistory]
    /\ returned = NoProfile
    /\ context \in OutcomeContexts
    /\ reply \in OutcomeReplies
    /\ decision = NoDecision
    /\ fallback = NoDecision

\* record_outcome(negotiation_id, outcome): the UPDATE of the outcome columns
\* of every logged decision of the negotiation, the strategy SELECT and write,
\* the commit; when the strategy write raises, the UPDATE is never committed.
RecordOutcome(outcome) ==
    /\ decision \notin {NoDecision, Raised}
    /\ ~judged.done
    /\ \E s \in latest_strategy(ai_decisions[PolicyNeg]) :
         /\ judged' =
              JudgedRows(TRUE, outcome,
                  {IF strategy_write_raises(s) THEN Judged(x.action, NULL, NULL)
                   ELSE Judged(x.action, outcome, outcome_correct(x.action, outcome)) :
                       x \in ai_decisions[PolicyNeg].rows})
         /\ outcomes' = [outcomes EXCEPT ![PolicyNeg] = record_outcome(@, s)]
         /\ last' = CallEnded("record_outcome", PolicyNeg, outcome,
                        IF strategy_write_raises(s) THEN "OperationalError" ELSE "none")
    /\ UNCHANGED <<serving, negs, now, calls, history, ai_decisions, overrides>>
    /\ UNCHANGED <<got, response, policyVars, profileVars, quoteVars, looking>>

NextOutcome == Decide \/ \E o \in {"accepted", "rejected"} : RecordOutcome(o)

SpecOutcome == InitOutcome /\ [][NextOutcome]_vars


(***************************************************************************)
(* A buyer who keeps responding while time passes: starts and responds of  *)
(* either engine, and a clock that runs on as long as some negotiation is  *)
(* open and not yet past its expires_at.                                   *)
(***************************************************************************)
\* Time passes beyond the expires_at of an open negotiation.
LiveTick ==
    /\ \E n \in NegIds :
          negs[n].status \in {"pending", "countered"} /\ now <= negs[n].expires_at
    /\ now' = now + TickMinutes
    /\ last' = NoCall
    /\ got' = NoGet
    /\ response' = NoResponse
    /\ UNCHANGED <<serving, negs, calls, storeVars, policyVars, quoteVars, learnVars, profileVars>>

\* The buyer's respond_to_counter calls, all of them well-formed: accept,
\* reject, or counter with a new_offer.
LiveRespond ==
    \E n \in NegIds, a \in ValidActions, o \in NewOffers :
        /\ a = "counter" => o # NULL
        /\ \E r \in RespondReplies(serving, a, o) : Respond(serving, n, a, o, r)

NextLive ==
    \/ \E n \in NegIds, p \in OurPrices, o \in Offers, r \in Replies :
         serving = "ai" /\ AIStart(n, p, o, r)
    \/ \E n \in NegIds, p \in OurPrices, o \in Offers, trusted \in BOOLEAN :
         serving = "rule" /\ RuleStart(n, p, o, trusted)
    \/ LiveRespond
    \/ LiveTick

\* The buyer keeps issuing respond calls and time keeps passing.
SpecLive ==
    Init /\ [][NextLive]_vars /\ WF_vars(LiveRespond) /\ WF_vars(LiveTick)

(***************************************************************************)
(* Several negotiations side by side: starts, responds and gets of either  *)
(* engine on every negotiation id.                                         *)
(***************************************************************************)
\* The first offers: 0.0015, which both engines counter.
IsolationOffers == {150}

\* Replies of the reasoning service: it is down, or it counters in the band
\* with an empty strategy.
IsolationReplies ==
    {Reply("timeout", "object", "reject", MISSING, MISSING, "adaptive"),
     Reply("text", "object", "counter", 240, 85, "")}

NextIsolation ==
    \/ \E n \in AllIds, p \in OurPrices, o \in IsolationOffers, r \in IsolationReplies :
         serving = "ai" /\ AIStart(n, p, o, r)
    \/ \E n \in AllIds, p \in OurPrices, o \in IsolationOffers, trusted \in BOOLEAN :
         serving = "rule" /\ RuleStart(n, p, o, trusted)
    \/ \E n \in AllIds, a \in RespondActions, o \in NewOffers :
         \E r \in RespondReplies(serving, a, o) \cap ({NoReply} \cup IsolationReplies) :
             Respond(serving, n, a, o, r)
    \/ \E n \in AllIds : Get(serving, n)

SpecIsolation == Init /\ [][NextIsolation]_vars

(***************************************************************************)
(* The price's specification: one evaluation of _get_our_price per         *)
(* behaviour, its unit price and quantity drawn in the initial state.      *)
(***************************************************************************)
\* Unit prices get_endpoint_price returns (it rounds to 4 decimals): 0.0004,
\* 0.0022 and the default 0.01.
UnitPrices == {40, 220, 1000}

\* Quantities the start endpoint passes on: int(quantity), unchecked.
Quantities == (0 - 1)..MaxQuantity

InitPrice ==
    /\ serving \in Engines
    /\ negs = [n \in AllIds |-> NoRow]
    /\ now = 0
    /\ calls = [c \in CallIds |-> Idle]
    /\ last = NoCall
    /\ history = [n \in AllIds |-> <<>>]
    /\ ai_decisions = [n \in AllIds |-> NoDecisions]
    /\ outcomes = [n \in AllIds |-> NoOutcomes]
    /\ overrides = [n \in AllIds |-> <<>>]
    /\ got = NoGet
    /\ response = NoResponse
    /\ judged = NoJudged
    /\ looking = NoLooking
    /\ profiles = [b \in Buyers |-> NoProfile]
    /\ recorded = [b \in Buyers |-> NoneRecorded]
    /\ recording = [c \in RecordIds |-> NoRecording]
    /\ stats = [b \in Buyers |-> NoHistory]
    /\ returned = NoProfile
    /\ context = NoContext
    /\ reply = NoReply
    /\ decision = NoDecision
    /\ fallback = NoDecision
    /\ \E u \in UnitPrices, q \in Quantities : priced = Quote(u, q, 0, FALSE)

\* start_negotiation's first step: our_price = self._get_our_price(...).
GetOurPrice ==
    /\ ~priced.done
    /\ priced' = Quote(priced.unit_price, priced.quantity,
                       _get_our_price(priced.unit_price, priced.quantity), TRUE)
    /\ UNCHANGED <<engineVars, storeVars, got, response, policyVars, profileVars, learnVars>>

NextPrice == GetOurPrice

SpecPrice == InitPrice /\ [][NextPrice]_vars

(***************************************************************************)
(* The profile store's specification: get_buyer_profile and record_outcome *)
(* calls of several request threads on the buyers' profiles.  SQLite lets   *)
(* one connection write at a time: a record_outcome call holds the write    *)
(* lock from its first UPDATE to its commit, and the others wait for it.    *)
(***************************************************************************)
\* Aggregates a buyer may have when its profile is created: no row at all;
\* negotiations of two rounds on average with low offers and none accepted;
\* three purchases worth 12 and quick negotiations, four in five accepted.
ProfileHistories ==
    {NoHistory,
     History(0, NULL, Rate(0, 1), 20, 50),
     History(3, 12, Rate(4, 5), 10, 90)}

\* The strategies record_outcome's SELECT can return for a negotiation of a
\* buyer: decisions are logged only after get_buyer_profile has stored the
\* buyer's profile.
RecordStrategies(profile) ==
    IF profile.stored THEN {"none", "loyalty_discount"} ELSE {"none"}

\* A database that lets every connection write at once.
Mutant_write_lock_free(open) == TRUE

\* No connection holds the database's write lock.
write_lock_free(open) == \A c \in RecordIds : open[c].pc # "open"

InitProfile ==
    /\ serving = "ai"
    /\ negs = [n \in AllIds |-> NoRow]
    /\ now = 0
    /\ calls = [c \in CallIds |-> Idle]
    /\ last = NoCall
    /\ history = [n \in AllIds |-> <<>>]
    /\ ai_decisions = [n \in AllIds |-> NoDecisions]
    /\ outcomes = [n \in AllIds |-> NoOutcomes]
    /\ overrides = [n \in AllIds |-> <<>>]
    /\ got = NoGet
    /\ response = NoResponse
    /\ priced = NoQuote
    /\ judged = NoJudged
    /\ looking = NoLooking
    /\ profiles = [b \in Buyers |-> NoProfile]
    /\ recorded = [b \in Buyers |-> NoneRecorded]
    /\ recording = [c \in RecordIds |-> NoRecording]
    /\ stats \in [Buyers -> ProfileHistories]
    /\ returned = NoProfile
    /\ context = NoContext
    /\ reply = NoReply
    /\ decision = NoDecision
    /\ fallback = NoDecision

\* get_buyer_profile: SELECT the profile; when there is none, compute one from
\* the aggregates, INSERT it, commit; return it.
GetBuyerProfile(b) ==
    /\ profiles[b].stored \/ write_lock_free(recording)
    /\ profiles' = [profiles EXCEPT ![b] = get_buyer_profile(@, stats[b])]
    /\ returned' = get_buyer_profile(profiles[b], stats[b])
    /\ last' = CallEnded("get_buyer_profile", b, "get", "none")
    /\ UNCHANGED <<serving, negs, now, calls, storeVars, got, response, policyVars, quoteVars, learnVars>>
    /\ UNCHANGED <<recorded, recording, stats>>

\* record_outcome is called for a negotiation of buyer b and opens its
\* connection.
RecordCall(c, b, outcome) ==
    /\ recording[c].pc = "idle"
    /\ recorded[b].count
         + Cardinality({x \in RecordIds : recording[x].pc # "idle" /\ recording[x].buyer = b})
         < MaxRecorded
    /\ recording' = [recording EXCEPT ![c] =
                       [pc |-> "called", buyer |-> b, outcome |-> outcome,
                        profile |-> NoProfile]]
    /\ last' = NoCall
    /\ returned' = NoProfile
    /\ UNCHANGED <<serving, negs, now, calls, storeVars, got, response, policyVars, quoteVars, learnVars>>
    /\ UNCHANGED <<profiles, recorded, stats>>

\* Its statements run once it gets the write lock: UPDATE ai_decisions, the
\* strategy SELECT and write (ending the call when that write raises), and the
\* UPDATE of the buyer's profile, computed from the committed row and not yet
\* visible to other connections.
RecordBegin(c, s) ==
    LET call == recording[c]
    IN  /\ call.pc = "called"
        /\ write_lock_free(recording)
        /\ s \in RecordStrategies(profiles[call.buyer])
        /\ recording' = [recording EXCEPT ![c] =
                           IF strategy_write_raises(s) THEN NoRecording
                           ELSE [call EXCEPT
                                   !.pc = "open",
                                   !.profile = _update_buyer_profile(
                                                   profiles[call.buyer], call.outcome)]]
        /\ last' = IF strategy_write_raises(s)
                       THEN CallEnded("record_outcome", call.buyer, call.outcome,
                                      "OperationalError")
                   ELSE NoCall
        /\ returned' = NoProfile
        /\ UNCHANGED <<serving, negs, now, calls, storeVars, got, response, policyVars, quoteVars, learnVars>>
        /\ UNCHANGED <<profiles, recorded, stats>>

\* conn.commit(): the call's writes become the stored state.
RecordCommit(c) ==
    LET call == recording[c]
    IN  /\ call.pc = "open"
        /\ profiles' = [profiles EXCEPT ![call.buyer] = call.profile]
        /\ recorded' = [recorded EXCEPT ![call.buyer] = note_outcome(@, call.outcome)]
        /\ recording' = [recording EXCEPT ![c] = NoRecording]
        /\ last' = CallEnded("record_outcome", call.buyer, call.outcome, "none")
        /\ returned' = NoProfile
        /\ UNCHANGED <<serving, negs, now, calls, storeVars, got, response, policyVars, quoteVars, learnVars, stats>>

NextProfile ==
    \/ \E b \in Buyers : GetBuyerProfile(b)
    \/ \E c \in RecordIds, b \in Buyers, o \in {"accepted", "rejected"} :
         RecordCall(c, b, o)
    \/ \E c \in RecordIds, s \in {"none", "loyalty_discount"} : RecordBegin(c, s)
    \/ \E c \in RecordIds : RecordCommit(c)

SpecProfile == InitProfile /\ [][NextProfile]_vars


(***************************************************************************)
(* get_buyer_profile in its steps, each call on its own connection: the    *)
(* SELECT of the profile, then the INSERT of a created one and the commit. *)
(***************************************************************************)
\* get_buyer_profile is called for buyer b and runs its SELECT.
LookSelect(c, b) ==
    /\ looking[c].pc = "idle"
    /\ looking' = [looking EXCEPT ![c] =
                     [pc |-> "selected", buyer |-> b, found |-> profiles[b]]]
    /\ last' = NoCall
    /\ returned' = NoProfile
    /\ UNCHANGED <<serving, negs, now, calls, storeVars, got, response, policyVars, quoteVars, judged>>
    /\ UNCHANGED <<profiles, recorded, recording, stats>>

\* The call goes on from what its SELECT found: a stored profile is returned;
\* otherwise the created profile is INSERTed once the write lock is free, and
\* buyer_id being the PRIMARY KEY of buyer_profiles, the INSERT raises
\* sqlite3.IntegrityError when a row for the buyer was committed since the
\* SELECT.
LookReturn(c) ==
    LET call == looking[c]
        b == call.buyer
        created == get_buyer_profile(call.found, stats[b])
        error == IF ~call.found.stored /\ profiles[b].stored THEN "IntegrityError"
                 ELSE "none"
    IN  /\ call.pc = "selected"
        /\ call.found.stored \/ write_lock_free(recording)
        /\ profiles' = IF call.found.stored \/ error # "none" THEN profiles
                       ELSE [profiles EXCEPT ![b] = created]
        /\ returned' = IF error = "none" THEN created ELSE NoProfile
        /\ last' = CallEnded("get_buyer_profile", b, "get", error)
        /\ looking' = [looking EXCEPT ![c] = NoLookup]
        /\ UNCHANGED <<serving, negs, now, calls, storeVars, got, response, policyVars, quoteVars, judged>>
        /\ UNCHANGED <<recorded, recording, stats>>

NextLookup ==
    \/ \E c \in LookIds, b \in Buyers : LookSelect(c, b)
    \/ \E c \in LookIds : LookReturn(c)
    \/ \E c \in RecordIds, b \in Buyers, o \in {"accepted", "rejected"} :
         RecordCall(c, b, o)
    \/ \E c \in RecordIds, s \in {"none", "loyalty_discount"} : RecordBegin(c, s)
    \/ \E c \in RecordIds : RecordCommit(c)

SpecLookup == InitProfile /\ [][NextLookup]_vars


(***************************************************************************)
(* Properties.                                                             *)
(***************************************************************************)
Exists(n) == negs[n] # NoRow

\* C1: once a negotiation's status is accepted, rejected or expired, no step
\* (respond_to_counter of either engine, seller override, purchase
\* confirmation) changes its status or any other field of its row.
C1_TerminalImmutable ==
    [][\A n \in NegIds : negs[n].status \in Terminal => negs'[n] = negs[n]]_vars

\* C2: every accepted negotiation has final_price >= min_acceptable
\* (our_price x 0.6), whichever policy produced the accept, in
\* start_negotiation or in respond_to_counter.
C2_AcceptedAboveFloor ==
    \A n \in NegIds :
        negs[n].status = "accepted" =>
            negs[n].final_price >= MinAcceptable(negs[n].our_price)

\* C3: a stored counter_price, when non-null, lies in
\* [min_acceptable, our_price x 1.2], whoever produced it.
C3_CounterInBand ==
    \A n \in NegIds :
        (Exists(n) /\ negs[n].counter_price # NULL) =>
            /\ negs[n].counter_price >= MinAcceptable(negs[n].our_price)
            /\ negs[n].counter_price <= MaxCounter(negs[n].our_price)

\* A respond_to_counter call on negotiation n ended without error in this step.
Succeeded(n) ==
    last'.op \in {"respond", "commit"} /\ last'.neg = n /\ last'.error = "none"

\* C4: round_number is 1 after start_negotiation, every successful
\* respond_to_counter call increases it by exactly 1, it never decreases, and
\* it never exceeds MAX_ROUNDS.
C4_RoundsAdvanceByOne ==
    [][\A n \in NegIds :
          /\ (~Exists(n) /\ negs'[n] # NoRow) => negs'[n].round_number = 1
          /\ Exists(n) => negs'[n].round_number >= negs[n].round_number
          /\ negs'[n].round_number <= MAX_ROUNDS
          /\ Succeeded(n) => negs'[n].round_number = negs[n].round_number + 1
      ]_vars

\* C5: on a negotiation at round_number = MAX_ROUNDS, countered and not
\* expired, respond with action counter fails with RoundLimitExceeded while
\* respond with action accept succeeds and moves it to accepted.
C5_AcceptAtRoundCap ==
    [][\A n \in NegIds :
          (/\ last'.op = "respond" /\ last'.neg = n
           /\ negs[n].round_number = MAX_ROUNDS
           /\ negs[n].status = "countered"
           /\ now <= negs[n].expires_at)
          => /\ last'.action = "counter" => last'.error = "RoundLimitExceeded"
             /\ last'.action = "accept" =>
                    (last'.error = "none" /\ negs'[n].status = "accepted")
      ]_vars

\* C6: a respond call on a non-terminal negotiation made after expires_at fails
\* with Expired and leaves the negotiation expired; it never moves it to
\* accepted, countered or rejected.
C6_LateRespondExpires ==
    [][\A n \in NegIds :
          (/\ last'.op = "respond" /\ last'.neg = n
           /\ negs[n].status \in {"pending", "countered"}
           /\ now > negs[n].expires_at)
          => (last'.error = "Expired" /\ negs'[n].status = "expired")
      ]_vars

\* C7: two respond_to_counter calls running concurrently on one negotiation
\* never both succeed: a call whose UPDATE is applied finds the round_number it
\* read, no other call having applied a transition since.
C7_OneTransitionPerRead ==
    [][\A c \in CallIds :
          (calls[c].pc = "read" /\ calls'[c].pc = "idle" /\ last'.error = "none")
          => negs[calls[c].neg].round_number = calls[c].snap.round_number
      ]_vars

\* The reasoning-service call fails, or its reply cannot be parsed into a
\* decision.
ServiceFailed ==
    \/ reply.kind \in {"no_key", "transport_error", "timeout", "http_error"}
    \/ reply.json \in {"unparseable", "not_object"}
    \/ reply.action = "not_a_string"
    \/ reply.confidence = BAD
    \/ (reply.action = "counter" /\ reply.counter_price = BAD)

\* C8: when the reasoning-service call fails (missing key, transport error,
\* timeout, non-200 status) or its reply cannot be parsed, make_decision
\* returns exactly the rule-based policy's decision for the same context and
\* raises nothing.
C8_FailureFallsBack ==
    (decision # NoDecision /\ ServiceFailed) =>
        /\ decision.action # "raised"
        /\ decision = _fallback_decision(context)

\* C9: when the reasoning service returns a parseable reply whose action is
\* not one of accept, counter, reject, make_decision returns the rule-based
\* policy's decision for the same context.
C9_InvalidActionFallsBack ==
    (/\ decision # NoDecision
     /\ reply.kind = "text" /\ reply.json = "object"
     /\ reply.action \in {"hold", "missing"}
     /\ reply.confidence # BAD)
    => decision = _fallback_decision(context)

\* The rule table of C10 on the evaluated context, the counter band's price
\* being left to the caller: Counter(d) says what the counter must be.
RuleTable(d, Counter(_)) ==
    LET o == context.offered_price
        p == context.our_price
    IN  /\ o >= p => (d.action = "accept" /\ d.confidence = 95)
        /\ (100 * o >= 85 * p /\ o < p) =>
               (d.action = "accept" /\ d.confidence = 80)
        /\ (10 * o >= 6 * p /\ 100 * o < 85 * p) =>
               (d.action = "counter" /\ Counter(d) /\ d.confidence = 70)
        /\ 10 * o < 6 * p => (d.action = "reject" /\ d.confidence = 90)

ExactMidpoint(d) == 2 * d.counter_price = context.offered_price + context.our_price

\* A 4-decimal price within 0.00005 of the midpoint.
RoundedMidpoint(d) ==
    /\ d.counter_price % 10 = 0
    /\ 2 * d.counter_price - (context.offered_price + context.our_price) <= 10
    /\ (context.offered_price + context.our_price) - 2 * d.counter_price <= 10

Responded(n, action) ==
    /\ last'.op = "respond" /\ last'.neg = n
    /\ last'.action = action /\ last'.error = "none"

\* C11: a respond call with action counter whose new_offer (stored as
\* current_offer by the call) is greater than or equal to the seller's current
\* counter_price ends with status accepted and final_price = new_offer.
C11_MeetingCounterAccepts ==
    [][\A n \in NegIds :
          (/\ Responded(n, "counter")
           /\ negs[n].counter_price # NULL
           /\ negs'[n].current_offer >= negs[n].counter_price)
          => /\ negs'[n].status = "accepted"
             /\ negs'[n].final_price = negs'[n].current_offer
      ]_vars


\* C12: a successful respond call with action accept sets status to accepted
\* and final_price to the counter_price stored before the call, so that
\* final_price lies in [min_acceptable, our_price x 1.2].
C12_AcceptAtCounterInBand ==
    [][\A n \in NegIds :
          Responded(n, "accept")
          => /\ negs'[n].status = "accepted"
             /\ negs'[n].final_price = negs[n].counter_price
             /\ negs'[n].final_price >= MinAcceptable(negs[n].our_price)
             /\ negs'[n].final_price <= MaxCounter(negs[n].our_price)
      ]_vars


\* C13: a respond call with action reject on any non-terminal, unexpired
\* negotiation, including one whose round_number already equals MAX_ROUNDS,
\* succeeds and sets status to rejected.
C13_RejectAlwaysSucceeds ==
    [][\A n \in NegIds :
          (/\ last'.op = "respond" /\ last'.neg = n /\ last'.action = "reject"
           /\ negs[n].status \in {"pending", "countered"}
           /\ now <= negs[n].expires_at)
          => (last'.error = "none" /\ negs'[n].status = "rejected")
      ]_vars


\* start_negotiation created negotiation n, or a respond_to_counter call on n
\* ended, in this step.
StartedOrResponded(n) ==
    \/ ~Exists(n) /\ negs'[n] # NoRow
    \/ last'.op = "respond" /\ last'.neg = n

\* C14: every transition of a negotiation into accepted or rejected, made by
\* the opening decision of start_negotiation or by respond_to_counter, comes
\* with exactly one record_outcome invocation for that negotiation, and over a
\* negotiation's whole life record_outcome is invoked at most once.
C14_OneOutcomePerTerminal ==
    [][\A n \in NegIds :
          /\ outcomes'[n].calls <= 1
          /\ (/\ StartedOrResponded(n)
              /\ negs[n].status \notin {"accepted", "rejected"}
              /\ negs'[n].status \in {"accepted", "rejected"})
             => outcomes'[n].calls = outcomes[n].calls + 1
      ]_vars


\* C15: if the strategy-performance write performed during record_outcome
\* fails, the respond call still completes: the negotiation's terminal
\* transition and its two history events are persisted and the buyer receives
\* the normal response, not an error.
C15_TrackerFailureSwallowed ==
    [][\A n \in NegIds :
          (/\ last'.op = "respond" /\ last'.neg = n
           /\ outcomes'[n].calls = outcomes[n].calls + 1
           /\ outcomes'[n].done = outcomes[n].done)
          => /\ last'.error = "none"
             /\ negs'[n].status \in {"accepted", "rejected"}
             /\ history'[n] = history[n] \o RoundEvents(negs[n].round_number + 1)
      ]_vars


\* C16: if persistence fails at any step of start_negotiation or
\* respond_to_counter, none of that request's writes is visible afterwards:
\* the row change, the two history events, the decision-log entry and the
\* outcome, strategy and buyer-profile updates all commit or none does.
C16_NoPartialWrites ==
    [][\A n \in NegIds :
          (last'.op = "respond" /\ last'.neg = n /\ last'.error = "OperationalError")
          => /\ negs'[n] = negs[n]
             /\ history'[n] = history[n]
             /\ ai_decisions'[n] = ai_decisions[n]
             /\ outcomes'[n].done = outcomes[n].done
      ]_vars


\* The history h holds, for each round r in 1..Len(h)/2, exactly one buyer
\* event and one seller event carrying round_number r, and nothing else.
OnePairPerRound(h) ==
    /\ Len(h) % 2 = 0
    /\ \A r \in 1..(Len(h) \div 2), a \in {"buyer", "seller"} :
           Cardinality({i \in 1..Len(h) : h[i] = Event(r, a)}) = 1

\* C17: after a successful start_negotiation followed by k successful
\* respond_to_counter calls the negotiation has exactly 2(k+1) history events,
\* for each round r in 1..k+1 exactly one buyer event and one seller event
\* carrying round_number r; failed calls add no history event.
C17_TwoEventsPerRound ==
    [][\A n \in NegIds :
          /\ (~Exists(n) /\ negs'[n] # NoRow) => Len(history'[n]) = 2
          /\ Succeeded(n) => Len(history'[n]) = Len(history[n]) + 2
          /\ (/\ last'.op \in {"respond", "commit"} /\ last'.neg = n
              /\ last'.error # "none") => history'[n] = history[n]
          /\ OnePairPerRound(history'[n])
      ]_vars


\* C18: every decision returned by make_decision, whether it came from the
\* reasoning service or from the rule-based fallback, has a decision-log record
\* (negotiation id, round, decision) written before make_decision returns.
C18_ReturnedDecisionLogged ==
    (decision # NoDecision /\ decision.action # "raised") =>
        /\ ai_decisions[PolicyNeg].round_number = 1
        /\ DecisionRow(decision) \in ai_decisions[PolicyNeg].rows

\* make_decision has returned a decision of the rule-based fallback after a
\* failed reasoning-service call, and the log holds it.
C18_Witness ==
    /\ decision # NoDecision /\ decision.action # "raised"
    /\ reply.kind \in CallFailures
    /\ decision.strategy = "meet_in_middle"
    /\ DecisionRow(decision) \in ai_decisions[PolicyNeg].rows


\* C19: get_negotiation changes no stored state: it never alters a
\* negotiation's status (including one whose expires_at has passed), round,
\* prices or history, and two get calls in succession return identical data.
C19_GetReadsOnly ==
    [][last'.op = "get" =>
          /\ negs' = negs
          /\ history' = history
          /\ ai_decisions' = ai_decisions
          /\ outcomes' = outcomes
          /\ got' = Got(negs[last'.neg], history[last'.neg])
          /\ (last.op = "get" /\ last.neg = last'.neg) => got' = got
      ]_vars

\* get_negotiation has returned a countered negotiation whose expires_at has
\* passed, and the stored row is still the one it returned.
C19_Witness ==
    /\ last.op = "get"
    /\ got.row.status = "countered"
    /\ now > got.row.expires_at
    /\ negs[last.neg] = got.row
    /\ Len(got.history) >= 2


\* The statuses of a negotiation and the edges between them.
Statuses == {"pending", "countered", "accepted", "rejected", "expired"}

StatusEdges ==
    ({"pending"} \X {"accepted", "countered", "rejected"})
    \cup ({"countered"} \X {"accepted", "countered", "rejected", "expired"})

\* C20: in every reachable state a negotiation's status is one of pending,
\* countered, accepted, rejected, expired, and every status change follows an
\* edge of the graph pending -> {accepted, countered, rejected},
\* countered -> {accepted, countered, rejected, expired}.
C20_StatusGraph ==
    [][\A n \in NegIds :
          negs'[n] # NoRow =>
              /\ negs'[n].status \in Statuses
              /\ (Exists(n) /\ negs'[n].status # negs[n].status) =>
                     <<negs[n].status, negs'[n].status>> \in StatusEdges
      ]_vars


\* The status an override action asks for ("none": the action names no status).
OverrideStatus(action) ==
    IF action = "accept" THEN "accepted"
    ELSE IF action = "counter" THEN "countered"
    ELSE IF action = "reject" THEN "rejected"
    ELSE "none"

\* C21: the seller override applies a status change only to a negotiation
\* whose status is non-terminal, and every override request it accepts changes
\* the status to the requested action's status and appends exactly one override
\* record holding the pre-override status and the overriding action.
C21_OverrideLoggedAndApplied ==
    [][\A n \in NegIds :
          overrides'[n] # overrides[n] =>
              /\ negs[n].status \in {"pending", "countered"}
              /\ Len(overrides'[n]) = Len(overrides[n]) + 1
              /\ SubSeq(overrides'[n], 1, Len(overrides[n])) = overrides[n]
              /\ overrides'[n][Len(overrides'[n])].original_action = negs[n].status
              /\ negs'[n].status =
                     OverrideStatus(overrides'[n][Len(overrides'[n])].override_action)
      ]_vars


\* A record_outcome call for buyer b committed in this step.
Recorded(b) ==
    last'.op = "record_outcome" /\ last'.neg = b /\ last'.error = "none"

\* C22: each record_outcome for a buyer updates acceptance_rate to
\* (old_rate x n + outcome) / (n + 1), outcome being 1 for accepted and 0 for
\* rejected and n the number of outcomes already recorded for that buyer, so
\* that after any sequence of outcomes the rate is their running average.
C22_RunningAverage ==
    [][\A b \in Buyers :
          (Recorded(b) /\ profiles[b].stored) =>
              LET old == profiles[b].acceptance_rate
                  new == profiles'[b].acceptance_rate
                  n == recorded[b].count
              IN  /\ new.num * old.den * (n + 1)
                       = (old.num * n + Success(last'.action) * old.den) * new.den
                  /\ new.num * recorded'[b].count = recorded'[b].accepted * new.den
      ]_vars


\* C23: two record_outcome calls for the same buyer id running concurrently
\* leave that buyer's acceptance_rate and total_transactions equal to the
\* result of applying the two updates one after the other in some order: every
\* committed call has applied its update to the profile left by the commit
\* before it, so no update is lost.
C23_NoLostUpdate ==
    [][\A b \in Buyers :
          Recorded(b) =>
              /\ profiles'[b] = _update_buyer_profile(profiles[b], last'.action)
              /\ recorded'[b].count = recorded[b].count + 1
      ]_vars

\* A record_outcome call for a buyer has committed while another call for the
\* same buyer was in progress, after an earlier outcome of that buyer.
C23_Witness ==
    /\ last.op = "record_outcome" /\ last.error = "none"
    /\ recorded[last.neg].count >= 2
    /\ profiles[last.neg].stored
    /\ \E c \in RecordIds :
           recording[c].pc = "called" /\ recording[c].buyer = last.neg


\* C24: record_outcome for a negotiation whose buyer has no stored profile does
\* not raise and leaves a freshly created profile for that buyer.
C24_UnknownBuyerGetsProfile ==
    [][\A b \in Buyers :
          (last'.op = "record_outcome" /\ last'.neg = b /\ ~profiles[b].stored)
          => (last'.error = "none" /\ profiles'[b].stored)
      ]_vars

\* C25: get_buyer_profile for a buyer id with no stored profile and no
\* transaction or negotiation history returns the defaults acceptance_rate =
\* 0.5, avg_offer_ratio = 1.0 and an empty tag list, and stores that profile.
C25_DefaultProfile ==
    [][\A b \in Buyers :
          (/\ last'.op = "get_buyer_profile" /\ last'.neg = b
           /\ ~profiles[b].stored /\ stats[b] = NoHistory)
          => /\ returned'.acceptance_rate = Rate(1, 2)
             /\ returned'.avg_offer_ratio = 100
             /\ returned'.tags = {}
             /\ profiles'[b] = returned'
      ]_vars


\* C26: the rule-based decision depends only on the pair (offered_price,
\* our_price): two evaluations with the same pair return the same action and
\* confidence whatever the buyer's trust or profile, the round, the history or
\* the market conditions, and the policy never fails for any input.
C26_RulePolicyPure ==
    fallback # NoDecision =>
        /\ fallback.action # "raised"
        /\ fallback = _fallback_decision(Context(context.our_price, context.offered_price))
        /\ \A trusted \in BOOLEAN :
               rule_start_row(context.our_price, context.offered_price, trusted, 0).status
                 = rule_start_row(context.our_price, context.offered_price, FALSE, 0).status


\* The floor a round works with, written out: our_price * 0.6.
Floor(our_price) == (6 * our_price) \div 10

\* The row n holds after a buyer counter is what the serving engine's policy
\* gives for the floor our_price * 0.6 of the row before the call.
DecidedWithFloor(n, before, after) ==
    LET ctx == [our_price |-> before.our_price,
                min_acceptable |-> Floor(before.our_price),
                offered_price |-> after.current_offer]
    IN  IF serving = "rule"
            THEN /\ after.status = "rejected" => after.current_offer < ctx.min_acceptable
                 /\ after.status = "countered" => after.current_offer >= ctx.min_acceptable
        ELSE \E r \in Replies :
                 LET d == make_decision(ctx, r)
                 IN  /\ d.action = "accept" => after.status = "accepted"
                     /\ d.action = "reject" => after.status = "rejected"
                     /\ d.action = "counter" =>
                            /\ after.status = "countered"
                            /\ after.counter_price = d.counter_price
                     /\ d.action # "raised"

\* C27: the our_price stored by start_negotiation is never changed by a later
\* respond, override or purchase confirmation, and the min_acceptable every
\* round decides with is our_price * 0.6.
C27_OurPriceFrozen ==
    [][\A n \in NegIds :
          Exists(n) =>
              /\ negs'[n].our_price = negs[n].our_price
              /\ (last' = CallEnded("respond", n, "counter", "none")
                    /\ negs'[n].round_number = negs[n].round_number + 1)
                     => DecidedWithFloor(n, negs[n], negs'[n])
      ]_vars

\* A negotiation that a buyer counter moved to round 2 and the seller then
\* overrode, its our_price still the one start_negotiation stored.
C27_Witness ==
    \E n \in NegIds :
        /\ Exists(n)
        /\ negs[n].round_number >= 2
        /\ negs[n].current_offer # NULL
        /\ Len(overrides[n]) > 0
        /\ negs[n].our_price \in OurPrices


\* The discount of the claim's table, in tenths.
TierDiscount(q) ==
    CASE q >= 100 -> 7
      [] 50 <= q /\ q < 100 -> 8
      [] 20 <= q /\ q < 50 -> 9
      [] OTHER -> 10

\* C28: our_price for quantity q and unit price u is round(u * d(q) * q, 4)
\* with d = 0.7 for q >= 100, 0.8 for 50 <= q < 100, 0.9 for 20 <= q < 50 and
\* 1.0 otherwise.
C28_BulkDiscount ==
    priced.done =>
        priced.our_price =
            Round4(priced.unit_price * TierDiscount(priced.quantity) * priced.quantity, 10)

\* Quantity 100 at the unit price 0.01 is priced 0.70.
C28_Witness ==
    /\ priced.done
    /\ priced.quantity = 100
    /\ priced.unit_price = 1000
    /\ priced.our_price = 70000


\* C29: the response of start_negotiation and of respond_to_counter carries a
\* payment URL if and only if the status it reports is accepted.
C29_PaymentUrlIffAccepted ==
    response # NoResponse =>
        (response.payment_url # NULL <=> response.status = "accepted")

\* A respond_to_counter call that answered accepted, with the payment URL of
\* its negotiation.
C29_Witness ==
    /\ last.op = "respond" /\ last.error = "none"
    /\ response.status = "accepted"
    /\ response.payment_url = last.neg
    /\ negs[last.neg].status = "accepted"


\* The row and the history events of negotiation m are left as they were.
Untouched(m) == negs'[m] = negs[m] /\ history'[m] = history[m]

\* C30: no start, respond or get on one negotiation id changes the row or the
\* history events of any other id: a respond or get on n leaves every other
\* id untouched, and a step that writes one negotiation (a start inserting it
\* included) writes no other.
C30_OtherIdsUntouched ==
    [][/\ \A n \in AllIds :
            (last'.op \in {"respond", "get"} /\ last'.neg = n)
                => \A m \in AllIds \ {n} : Untouched(m)
       /\ \A n \in AllIds :
            ~Untouched(n) => \A m \in AllIds \ {n} : Untouched(m)
      ]_vars

\* Two negotiations, the second answered by the buyer and moved to round 2
\* while the first is still as start_negotiation left it.
C30_Witness ==
    \E n \in AllIds, m \in AllIds :
        /\ n # m
        /\ last = CallEnded("respond", n, "counter", "none")
        /\ negs[n].round_number = 2 /\ Len(history[n]) = 4
        /\ Exists(m)
        /\ negs[m].round_number = 1 /\ Len(history[m]) = 2


\* C31: respond_to_counter checks in the order unknown id, terminal status,
\* expiry, round cap: a negotiation both past expires_at and at round_number =
\* MAX_ROUNDS fails with Expired and becomes expired, not RoundLimitExceeded,
\* and a terminal negotiation fails with InvalidState whatever its expiry or
\* round.
C31_CheckOrder ==
    [][\A n \in NegIds :
          (last'.op = "respond" /\ last'.neg = n) =>
              /\ negs[n] = NoRow => last'.error = "NotFound"
              /\ (Exists(n) /\ negs[n].status \in Terminal)
                     => last'.error = "InvalidState"
              /\ (/\ Exists(n) /\ negs[n].status \in {"pending", "countered"}
                  /\ negs[n].expires_at < now
                  /\ negs[n].round_number >= MAX_ROUNDS)
                     => (last'.error = "Expired" /\ negs'[n].status = "expired")
              /\ (/\ Exists(n) /\ negs[n].status \in {"pending", "countered"}
                  /\ negs[n].expires_at >= now
                  /\ negs[n].round_number >= MAX_ROUNDS)
                     => last'.error = "RoundLimitExceeded"
      ]_vars


\* The errors of respond_to_counter that the request makes before any write.
RefusedErrors == {"NotFound", "InvalidState", "RoundLimitExceeded", "InvalidAction"}

\* C32: a respond call that fails with NotFound, InvalidState,
\* RoundLimitExceeded or an invalid action (action counter without new_offer
\* included) leaves the negotiation's status, round_number, offers,
\* counter_price, expires_at and history unchanged and records no decision and
\* no outcome.
C32_RefusedCallWritesNothing ==
    [][\A n \in NegIds :
          (last'.op = "respond" /\ last'.neg = n /\ last'.error \in RefusedErrors)
          => /\ negs'[n] = negs[n]
             /\ history'[n] = history[n]
             /\ ai_decisions'[n] = ai_decisions[n]
             /\ outcomes'[n] = outcomes[n]
             /\ recorded' = recorded
      ]_vars

\* A countered negotiation whose buyer just sent action counter without a
\* new_offer and was refused.
C32_Witness ==
    \E n \in NegIds :
        /\ last = CallEnded("respond", n, "counter", "InvalidAction")
        /\ negs[n].status = "countered"
        /\ Len(history[n]) = 2 * negs[n].round_number


\* The reasoning service answered with a reply _parse_llm_response takes as a
\* counter.
ValidCounterReply ==
    /\ context.our_price # 0
    /\ ~_call_llm_raises(reply)
    /\ ~_parse_raises(reply)
    /\ reply.action = "counter"

\* C33: for a valid reasoning-service counter, the counter_price make_decision
\* returns after clamping and then rounding to 4 decimals still lies in
\* [min_acceptable, our_price x 1.2], for every our_price with 4 decimals and
\* every proposed price, proposals below the floor included when
\* our_price x 0.6 is not itself a 4-decimal value.
C33_RoundedCounterInBand ==
    (decision # NoDecision /\ ValidCounterReply) =>
        /\ decision.action = "counter"
        /\ decision.counter_price >= context.min_acceptable
        /\ decision.counter_price <= MaxCounter(context.our_price)


\* C34: start_negotiation sets expires_at to its call time plus 30 minutes and
\* every successful respond_to_counter resets it to its own call time plus 30
\* minutes, so expires_at never decreases during a negotiation, and no other
\* operation changes it.
C34_ExpiryNeverDecreases ==
    [][\A n \in NegIds :
          /\ (negs[n] = NoRow /\ negs'[n] # NoRow)
                 => negs'[n].expires_at = now + TTL
          /\ Exists(n) =>
                 /\ negs'[n].expires_at >= negs[n].expires_at
                 /\ negs'[n].expires_at # negs[n].expires_at => Succeeded(n)
      ]_vars


\* C35: every negotiation eventually reaches a terminal status (accepted,
\* rejected or expired) provided the buyer keeps issuing respond calls and time
\* passes beyond expires_at: no reachable state leaves a negotiation
\* permanently countered with every respond call refused.
C35_EventuallyTerminal ==
    \A n \in NegIds : Exists(n) ~> (negs[n].status \in Terminal)


\* C36: whenever a negotiation's status is countered its counter_price is
\* non-null, after any sequence of start, respond and seller-override
\* operations, so that a buyer accept always yields an accepted negotiation
\* with a non-null final_price.
C36_CounteredHasCounterPrice ==
    \A n \in NegIds :
        /\ negs[n].status = "countered" => negs[n].counter_price # NULL
        /\ (negs[n].status = "accepted" /\ last = CallEnded("respond", n, "accept", "none"))
               => negs[n].final_price # NULL


\* C37: for the same our_price, offered_price and quantity at round 1,
\* NegotiationEngine.start_negotiation and AINegotiationEngine.start_negotiation
\* running on the rule-based fallback (reasoning service unavailable) produce
\* the same status and the same counter_price.
C37_EnginesAgreeAtStart ==
    (fallback # NoDecision /\ fallback.action # "raised") =>
        \A trusted \in BOOLEAN :
            LET ai == ai_start_row(context.our_price, context.offered_price, fallback, 0)
                rule == rule_start_row(context.our_price, context.offered_price, trusted, 0)
            IN  /\ ai.status = rule.status
                /\ ai.counter_price = rule.counter_price


\* C38: within one negotiation, each new seller counter_price produced by a
\* respond call with action counter is strictly lower than the seller's
\* previous counter_price and not lower than the buyer's new_offer: the seller
\* never raises its counter after the buyer raises the offer.
C38_CountersDescend ==
    [][\A n \in NegIds :
          (/\ last' = CallEnded("respond", n, "counter", "none")
           /\ negs[n].status = "countered"
           /\ negs'[n].status = "countered")
          => /\ negs'[n].counter_price < negs[n].counter_price
             /\ negs'[n].counter_price >= negs'[n].current_offer
      ]_vars


\* C39: after a record_outcome call that committed, every logged decision of
\* the negotiation has outcome_correct = 1 exactly when its action corresponds
\* to the outcome (accept with accepted, reject with rejected), and 0 otherwise.
C39_OutcomeCorrectMatches ==
    (judged.done /\ last.error = "none") =>
        \A x \in judged.rows :
            x.outcome_correct =
                IF \/ (x.action = "accept" /\ judged.outcome = "accepted")
                   \/ (x.action = "reject" /\ judged.outcome = "rejected")
                THEN 1 ELSE 0


\* C40: every get_buyer_profile call, also one that runs while another call
\* for the same buyer is between its SELECT and its INSERT, ends without an
\* error, returns a profile, and leaves the buyer's profile stored.
C40_ConcurrentLookupsReturn ==
    last.op = "get_buyer_profile" =>
        /\ last.error = "none"
        /\ returned.stored
        /\ profiles[last.neg].stored

=============================================================================
